---- MODULE Spec2Model ----
(***************************************************************************)
(* A model of the Pinterest scraper of src/main.py: the page loop of       *)
(* get_pinterest_pins with its element extraction, process_data,           *)
(* save_csv_chunks and the main() that chains them.                        *)
(*                                                                         *)
(* Python strings are sequences of one-character strings, so that strip,   *)
(* startswith, replace, lower, slicing and formatting are computed and not *)
(* assumed.  A parsed page is a sequence of nodes; an element node carries *)
(* its tag name, its attributes in source order and its child nodes.       *)
(***************************************************************************)
EXTENDS Integers, Sequences, FiniteSets, TLC

VARIABLES
    pc,             \* where the run stands
    argv,           \* the parsed command line (argparse's args)
    keyword,        \* args.keyword.strip()
    start_date,     \* validate_date(args.start_date): a date or NoneValue
    num_pages,      \* page limit handed to get_pinterest_pins
    rows_per_file,  \* chunk size handed to save_csv_chunks
    site,           \* what the transport can answer in this run
    page,           \* loop variable of get_pinterest_pins
    results,        \* accumulated candidates
    response,       \* outcome of the last requests.get
    page_results,   \* candidates of the last processed page
    fetched,        \* page indices requested so far, in order
    slept,          \* time.sleep(1) was called since the last request
    data,           \* return value of process_data
    files,          \* artifacts written under output/, in order
    num_files,      \* return value of save_csv_chunks
    signal,         \* the error the run logged before exiting, if any
    exit_code       \* process exit status, Running until the process exits

vars == <<pc, argv, keyword, start_date, num_pages, rows_per_file, site, page,
          results, response, page_results, fetched, slept, data, files,
          num_files, signal, exit_code>>

\* Python's None, where a record (a date, the data frame) may stand
NoneValue == [kind |-> "None"]

\* exit_code while the process has not exited
Running == -1

-----------------------------------------------------------------------------
(* Strings *)

Whitespace == {" ", "\t", "\n"}

Digits == <<"0", "1", "2", "3", "4", "5", "6", "7", "8", "9">>

UpperCase == <<"A", "B", "C", "D", "E", "F", "G", "H", "I", "J", "K", "L", "M",
               "N", "O", "P", "Q", "R", "S", "T", "U", "V", "W", "X", "Y", "Z">>

LowerCase == <<"a", "b", "c", "d", "e", "f", "g", "h", "i", "j", "k", "l", "m",
               "n", "o", "p", "q", "r", "s", "t", "u", "v", "w", "x", "y", "z">>

\* str(n) for n >= 0
RECURSIVE IntToStr(_)
IntToStr(n) ==
    IF n < 10 THEN <<Digits[n + 1]>>
    ELSE IntToStr(n \div 10) \o <<Digits[(n % 10) + 1]>>

\* the %0wd of strftime: n written with at least w digits
RECURSIVE ZeroPad(_, _)
ZeroPad(s, w) == IF Len(s) >= w THEN s ELSE ZeroPad(<<"0">> \o s, w)

\* s[:n]
Take(s, n) == SubSeq(s, 1, IF Len(s) < n THEN Len(s) ELSE n)

StartsWith(s, prefix) ==
    /\ Len(s) >= Len(prefix)
    /\ SubSeq(s, 1, Len(prefix)) = prefix

\* needle in s
Contains(s, needle) ==
    \E k \in 0..(Len(s) - Len(needle)) : SubSeq(s, k + 1, k + Len(needle)) = needle

LowerChar(c) ==
    IF \E k \in 1..Len(UpperCase) : UpperCase[k] = c
    THEN LowerCase[CHOOSE k \in 1..Len(UpperCase) : UpperCase[k] = c]
    ELSE c

\* s.lower()
Lower(s) == [k \in 1..Len(s) |-> LowerChar(s[k])]

RECURSIVE LStrip(_)
LStrip(s) ==
    IF s # <<>> /\ Head(s) \in Whitespace THEN LStrip(Tail(s)) ELSE s

RECURSIVE RStrip(_)
RStrip(s) ==
    IF s # <<>> /\ s[Len(s)] \in Whitespace
    THEN RStrip(SubSeq(s, 1, Len(s) - 1))
    ELSE s

\* s.strip()
Strip(s) == RStrip(LStrip(s))

\* s.replace(c, by) for a one-character c
RECURSIVE Replace(_, _, _)
Replace(s, c, by) ==
    IF s = <<>> THEN <<>>
    ELSE (IF Head(s) = c THEN by ELSE <<Head(s)>>) \o Replace(Tail(s), c, by)

-----------------------------------------------------------------------------
(* datetime: proleptic Gregorian dates, as datetime computes them *)

MINYEAR == 1

MAXYEAR == 9999

IsLeap(y) == (y % 4 = 0) /\ ((y % 100 # 0) \/ (y % 400 = 0))

DaysInMonth(y, m) ==
    IF m = 2 THEN (IF IsLeap(y) THEN 29 ELSE 28)
    ELSE IF m \in {4, 6, 9, 11} THEN 30 ELSE 31

RECURSIVE DaysBeforeMonth(_, _)
DaysBeforeMonth(y, m) ==
    IF m = 1 THEN 0 ELSE DaysBeforeMonth(y, m - 1) + DaysInMonth(y, m - 1)

DaysBeforeYear(y) ==
    LET p == y - 1 IN p * 365 + (p \div 4) - (p \div 100) + (p \div 400)

\* date.toordinal(): 0001-01-01 is day 1
ToOrdinal(d) == DaysBeforeYear(d.year) + DaysBeforeMonth(d.year, d.month) + d.day

MaxOrdinal == DaysBeforeYear(MAXYEAR + 1)

\* date.fromordinal(n), for 1 <= n <= MaxOrdinal
FromOrdinal(n) ==
    LET y == CHOOSE yy \in ((n \div 366) + 1)..((n \div 365) + 1) :
                 DaysBeforeYear(yy) < n /\ n <= DaysBeforeYear(yy + 1)
        r == n - DaysBeforeYear(y)
        m == CHOOSE mm \in 1..12 :
                 DaysBeforeMonth(y, mm) < r /\ r <= DaysBeforeMonth(y, mm) + DaysInMonth(y, mm)
    IN [year |-> y, month |-> m, day |-> r - DaysBeforeMonth(y, m)]

\* datetime.strptime(s, "%Y-%m-%d") accepts s: s is given by its three fields
IsDate(d) ==
    /\ d.year \in MINYEAR..MAXYEAR
    /\ d.month \in 1..12
    /\ d.day \in 1..DaysInMonth(d.year, d.month)

validate_date(date_string) ==
    IF IsDate(date_string) THEN date_string ELSE NoneValue

\* start + timedelta(days=n) raises OverflowError past 9999-12-31
AddDaysOverflows(d, n) == ToOrdinal(d) + n > MaxOrdinal

AddDays(d, n) == FromOrdinal(ToOrdinal(d) + n)

\* d.strftime("%Y-%m-%d")
Strftime(d) ==
    ZeroPad(IntToStr(d.year), 4) \o <<"-">> \o ZeroPad(IntToStr(d.month), 2)
        \o <<"-">> \o ZeroPad(IntToStr(d.day), 2)

-----------------------------------------------------------------------------
(* BeautifulSoup: the parsed page *)

TextNode(chars) == [name |-> "#text", attrs |-> <<>>, kids |-> <<>>, text |-> chars]

Element(name, attrs, kids) == [name |-> name, attrs |-> attrs, kids |-> kids, text |-> <<>>]

HasAttr(node, attr) == \E k \in 1..Len(node.attrs) : node.attrs[k][1] = attr

\* node.get(attr, default)
Get(node, attr, default) ==
    IF HasAttr(node, attr)
    THEN node.attrs[CHOOSE k \in 1..Len(node.attrs) : node.attrs[k][1] = attr][2]
    ELSE default

\* every node of the trees, in document order: each node before its children,
\* siblings left to right (the sequence is halved to keep the recursion shallow)
RECURSIVE Descendants(_)
Descendants(nodes) ==
    IF nodes = <<>> THEN <<>>
    ELSE IF Len(nodes) = 1 THEN <<nodes[1]>> \o Descendants(nodes[1].kids)
    ELSE LET half == Len(nodes) \div 2
         IN Descendants(SubSeq(nodes, 1, half))
                \o Descendants(SubSeq(nodes, half + 1, Len(nodes)))

\* str(node): the markup of the node, attributes in source order
RECURSIVE Serialize(_)
RECURSIVE SerializeAll(_)
RECURSIVE SerializeAttrs(_)
SerializeAttrs(attrs) ==
    IF attrs = <<>> THEN <<>>
    ELSE <<" ", Head(attrs)[1], "=", "\"">> \o Head(attrs)[2] \o <<"\"">>
             \o SerializeAttrs(Tail(attrs))

SerializeAll(nodes) ==
    IF nodes = <<>> THEN <<>> ELSE Serialize(Head(nodes)) \o SerializeAll(Tail(nodes))

Serialize(node) ==
    IF node.name = "#text" THEN node.text
    ELSE IF node.name = "img"
    THEN <<"<", node.name>> \o SerializeAttrs(node.attrs) \o <<"/>">>
    ELSE <<"<", node.name>> \o SerializeAttrs(node.attrs) \o <<">">>
             \o SerializeAll(node.kids) \o <<"</", node.name, ">">>

\* Method 1: soup.find_all("img", {"src": True})
IsImgPin(node) == node.name = "img" /\ HasAttr(node, "src")

\* Method 2: soup.find_all("div", {"data-test-id": "pin"})
IsPinContainer(node) ==
    node.name = "div" /\ Get(node, "data-test-id", <<>>) = <<"p", "i", "n">>

\* Method 3: soup.find_all("div", class_=lambda x: x and "pin" in x.lower())
IsPinDiv(node) ==
    /\ node.name = "div"
    /\ Get(node, "class", <<>>) # <<>>
    /\ Contains(Lower(Get(node, "class", <<>>)), <<"p", "i", "n">>)

\* Method 4: soup.find_all("a", href=lambda x: x and "/pin/" in x)
IsPinLink(node) ==
    /\ node.name = "a"
    /\ Contains(Get(node, "href", <<>>), <<"/", "p", "i", "n", "/">>)

\* pins after the four extend calls: each find_all keeps document order
RawPins(markup) ==
    LET all == Descendants(markup)
    IN SelectSeq(all, IsImgPin) \o SelectSeq(all, IsPinContainer)
           \o SelectSeq(all, IsPinDiv) \o SelectSeq(all, IsPinLink)

\* pin_id not in seen, when the loop reaches pins[k]: seen holds the str of
\* every earlier pin
NotSeen(pin_ids, k) == \A j \in 1..(k - 1) : pin_ids[j] # pin_ids[k]

\* str(pin) of every pin, in order (halved like Descendants)
RECURSIVE PinIds(_)
PinIds(pins) ==
    IF pins = <<>> THEN <<>>
    ELSE IF Len(pins) = 1 THEN <<Serialize(pins[1])>>
    ELSE LET half == Len(pins) \div 2
         IN PinIds(SubSeq(pins, 1, half)) \o PinIds(SubSeq(pins, half + 1, Len(pins)))

\* Dedup without the seen check: every pin is kept
DedupNone(pins) == pins

\* the seen/unique_pins loop: the first pin of each str(pin), order kept
Dedup(pins) ==
    LET pin_ids == PinIds(pins)
        kept == SelectSeq([k \in 1..Len(pins) |-> k], LAMBDA k : NotSeen(pin_ids, k))
    IN [k \in 1..Len(kept) |-> pins[kept[k]]]

UniquePins(markup) == Dedup(RawPins(markup))

\* pin.find("img"): the first img below pin, or NoneValue
FindImg(pin) ==
    LET imgs == SelectSeq(Descendants(pin.kids), LAMBDA n : n.name = "img")
    IN IF imgs = <<>> THEN NoneValue ELSE Head(imgs)

\* pin.get_text(strip=True)
RECURSIVE JoinStripped(_)
JoinStripped(nodes) ==
    IF nodes = <<>> THEN <<>>
    ELSE (IF Head(nodes).name = "#text" THEN Strip(Head(nodes).text) ELSE <<>>)
             \o JoinStripped(Tail(nodes))

GetText(pin) == JoinStripped(Descendants(pin.kids))

TitleCap == 100

\* the title and img_src read off one pin, before the clean-up
RawFields(pin) ==
    IF pin.name = "img"
    THEN [title |-> Get(pin, "alt", <<>>), img |-> Get(pin, "src", <<>>)]
    ELSE LET img_tag == FindImg(pin)
         IN IF img_tag # NoneValue
            THEN [title |-> Get(img_tag, "alt", <<>>), img |-> Get(img_tag, "src", <<>>)]
            ELSE IF pin.name = "div"
            THEN [title |-> Take(GetText(pin), TitleCap),
                  img |-> IF Get(pin, "data-src", <<>>) # <<>>
                          THEN Get(pin, "data-src", <<>>)
                          ELSE Get(pin, "data-lazy-src", <<>>)]
            ELSE [title |-> Take(GetText(pin), TitleCap), img |-> <<>>]

\* img_src and (img_src.startswith("http") or img_src.startswith("//"))
ValidImage(img_src) ==
    /\ img_src # <<>>
    /\ \/ StartsWith(img_src, <<"h", "t", "t", "p">>)
       \/ StartsWith(img_src, <<"/", "/">>)

\* the candidate of unique_pins[i + 1] (i as enumerate counts it)
Candidate(pin, kw, count, i) ==
    LET raw == RawFields(pin)
    IN [title |-> IF raw.title = <<>>
                  THEN kw \o <<" ", "i", "d", "e", "a", " ">> \o IntToStr(count + i + 1)
                  ELSE Strip(raw.title),
        img |-> raw.img]

\* page_results of one page, count being len(results) before it: the
\* candidates of the pins whose image passes the check, in order
Candidates(unique_pins, kw, count) ==
    SelectSeq([k \in 1..Len(unique_pins) |-> Candidate(unique_pins[k], kw, count, k - 1)],
              LAMBDA c : ValidImage(c.img))


-----------------------------------------------------------------------------
(* process_data *)

Emojis == <<":sparkles:", ":fire:", ":bulb:", ":star:", ":heart:", "">>

RandMax == 999

\* The random module is a deterministic generator behind a seed.  Its stream
\* is modelled by a small counter-based generator: draw k of a run.
RandomState(seed, k) == (((seed * 251 + k) * 75) + 74) % 65537

\* random.choice(emojis), the first draw of item i
RandomChoice(seed, i) == Emojis[(RandomState(seed, 2 * i + 1) % Len(Emojis)) + 1]

\* random.randint(1, 999), the second draw of item i
RandomInt(seed, i) == (RandomState(seed, 2 * i + 2) % RandMax) + 1

\* keyword.replace(' ', '-').replace('&', 'and').replace('+', 'plus')
CleanKeyword(kw) ==
    Replace(Replace(Replace(kw, " ", <<"-">>), "&", <<"a", "n", "d">>),
            "+", <<"p", "l", "u", "s">>)

\* the body of the try raises for item i: a KeyError or an OverflowError
ItemFails(item, start, i) ==
    \/ "title" \notin DOMAIN item
    \/ AddDaysOverflows(start, i)
    \/ "img" \notin DOMAIN item

\* DayOffset counting the records appended so far instead of the loop index
DayOffsetRenumbered(i, emitted) == emitted

\* the day offset given to timedelta for the item at loop index i
DayOffset(i, emitted) == i

\* the dict appended for an item: i numbers it, day is its day offset
RecordAt(item, kw, board, domain, start, seed, i, day) ==
    [title |-> item.title \o <<" ", RandomChoice(seed, i), " ">>
                   \o IntToStr(RandomInt(seed, i)),
     description |-> kw \o <<" ", "i", "n", "s", "p", "i", "r", "a", "t", "i", "o", "n", " ">>
                         \o IntToStr(i + 1),
     image_url |-> item.img,
     scheduled_date |-> Strftime(AddDays(start, day)),
     keyword |-> kw,
     board |-> board,
     domain_link |-> <<"h", "t", "t", "p", "s", ":", "/", "/">> \o domain \o <<"/">>
                         \o CleanKeyword(kw) \o <<"-">> \o IntToStr(i + 1)]

\* Record numbering the description and the link by the records appended so far
RecordRenumbered(item, kw, board, domain, start, seed, i, emitted) ==
    RecordAt(item, kw, board, domain, start, seed, emitted, i)

\* the record appended for the item at loop index i (0-based); emitted is
\* len(data) before it
Record(item, kw, board, domain, start, seed, i, emitted) ==
    RecordAt(item, kw, board, domain, start, seed, i, DayOffset(i, emitted))

\* the for loop of process_data: the loop indices whose try body completes
\* append a record each, in order; the others are skipped by the except clause
ProcessItems(items, kw, board, domain, start, seed) ==
    LET done == SelectSeq([k \in 1..Len(items) |-> k - 1],
                          LAMBDA i : ~ItemFails(items[i + 1], start, i))
    IN [k \in 1..Len(done) |->
           Record(items[done[k] + 1], kw, board, domain, start, seed, done[k], k - 1)]

\* process_data: None for no results, else the list of records
process_data(items, kw, board, domain, start, seed) ==
    IF items = <<>> THEN NoneValue
    ELSE [kind |-> "list",
          rows |-> ProcessItems(items, kw, board, domain, start, seed)]

\* not data
NoData(d) == d = NoneValue \/ d.rows = <<>>

\* pd.DataFrame(data): its rows
DataFrame(d) == IF d = NoneValue THEN <<>> ELSE d.rows

-----------------------------------------------------------------------------
(* save_csv_chunks *)

Min(a, b) == IF a < b THEN a ELSE b

Max(a, b) == IF a > b THEN a ELSE b

\* RangeLen rounding down: the last, shorter step is lost
RangeLenFloor(n, step) == n \div step

\* len(range(0, n, step))
RangeLen(n, step) == (n + step - 1) \div step

\* Chunks with the slice end off by one: df[i:i+rows_per_file+1]
ChunksOffByOne(df, rows) ==
    [k \in 1..RangeLen(Len(df), rows) |->
        SubSeq(df, (k - 1) * rows + 1, Min(k * rows + 1, Len(df)))]

\* [df[i:i+rows_per_file] for i in range(0, df.shape[0], rows_per_file)]
Chunks(df, rows) ==
    [k \in 1..RangeLen(Len(df), rows) |->
        SubSeq(df, (k - 1) * rows + 1, Min(k * rows, Len(df)))]

\* f"output/{keyword.replace(' ', '_')}_part{idx+1}.csv"
Filename(kw, idx) ==
    <<"o", "u", "t", "p", "u", "t", "/">> \o Replace(kw, " ", <<"_">>)
        \o <<"_", "p", "a", "r", "t">> \o IntToStr(idx + 1) \o <<".", "c", "s", "v">>

-----------------------------------------------------------------------------
(* Program constants *)

TargetPins == 200

MinPages == 10

MaxPages == 50

MinRows == 50

MaxRows == 1000

SampleCount == 10

StatusOK == 200

-----------------------------------------------------------------------------
(* Inputs *)

\* number of seeds the random generator may start from
NumSeeds == 2

\* longest candidate list handed to process_data on its own
MaxCandidates == 3

\* largest rows_per_file handed to save_csv_chunks on its own
MaxChunk == 2

\* most top-level nodes of a page handed to the extraction on its own
MaxNodes == 2

HomeDecor == <<"h", "o", "m", "e", " ", "d", "e", "c", "o", "r">>

Keywords == {HomeDecor, <<"a", " ", "&", " ", "b", "+">>}

Board == <<"b", "o", "a", "r", "d">>

Domain == <<"x", ".", "i", "o">>

Date(y, m, d) == [year |-> y, month |-> m, day |-> d]

\* --start_date values: two dates, a day next to a leap day, the last days
\* datetime has, and a string strptime rejects
StartDates == {Date(2024, 1, 1), Date(2024, 2, 28), Date(9999, 12, 30)}

BadDate == Date(2024, 2, 30)

Url(n) == <<"h", "t", "t", "p", ":", "/", "/", "i", "/">> \o IntToStr(n)

Img(alt, src) == Element("img", << <<"alt", alt>>, <<"src", src>> >>, <<>>)

\* a page of n distinct images
ImagePage(n) == [k \in 1..n |-> Img(<<"p", "i", "n">>, Url(k))]

\* <a href="/pin/7"><div class="Pin" data-test-id="pin"><img alt=" t " src=...>x</div></a>
NestedPin ==
    Element("a", << <<"href", <<"/", "p", "i", "n", "/", "7">> >> >>,
        << Element("div", << <<"class", <<"P", "i", "n">> >>,
                              <<"data-test-id", <<"p", "i", "n">> >> >>,
               << Img(<<" ", "t", " ">>, Url(7)), TextNode(<<"x">>) >>) >>)

\* the nodes pages are built from: images with and without alt, with a
\* relative and a protocol-relative source, containers, links and plain text
Nodes ==
    { Img(<<"t">>, Url(1)),
      Img(<<>>, Url(2)),
      Img(<<"t">>, <<"/", "r", "e", "l">>),
      Element("img", << <<"src", <<"/", "/", "c", "/", "3">> >>, <<"alt", <<"t">> >> >>, <<>>),
      Element("div", << <<"data-test-id", <<"p", "i", "n">> >> >>, << Img(<<"t">>, Url(1)) >>),
      Element("div", << <<"class", <<"a", " ", "p", "I", "N", "s">> >>,
                         <<"data-lazy-src", Url(4)>> >>, << TextNode(<<" ", "h", "i", " ">>) >>),
      Element("div", << <<"class", <<"b", "o", "x">> >> >>, << Img(<<"t">>, Url(1)) >>),
      Element("a", << <<"href", <<"/", "p", "i", "n", "/", "5">> >> >>, << TextNode(<<"g", "o">>) >>),
      NestedPin,
      TextNode(<<"t", "x", "t">>) }

RECURSIVE SeqsUpTo(_, _)
SeqsUpTo(S, n) ==
    IF n = 0 THEN {<<>>}
    ELSE LET shorter == SeqsUpTo(S, n - 1)
         IN shorter \cup {Append(q, x) : q \in shorter, x \in S}

Markups == SeqsUpTo(Nodes, MaxNodes)

NetworkError == [kind |-> "error", status |-> 0, markup |-> <<>>]

Http(status, markup) == [kind |-> "http", status |-> status, markup |-> markup]

\* what the transport answers while the page loop is driven to its target:
\* a timeout, a refusal, a page without pins, a page holding half the target,
\* and one holding a little more: a nested pin twice and an image without alt
DriverSite ==
    { NetworkError, Http(429, <<>>), Http(StatusOK, <<TextNode(<<"t", "x", "t">>)>>),
      Http(StatusOK, ImagePage(TargetPins \div 2)),
      Http(StatusOK, <<NestedPin>> \o ImagePage(TargetPins \div 2)
                         \o <<Img(<<>>, Url(2)), NestedPin>>) }

\* what the transport answers when single pages are extracted
ExtractSite == {NetworkError, Http(404, <<>>)} \cup {Http(StatusOK, m) : m \in Markups}

\* candidates as process_data may be handed them: whole, or missing a key
Items ==
    { [title |-> <<"t">>, img |-> Url(1)],
      [title |-> <<"u">>],
      [img |-> Url(2)] }

CandidateLists == SeqsUpTo(Items, MaxCandidates)

\* the 450 valid candidates of the end-to-end scenario
ScenarioCandidates ==
    [k \in 1..450 |-> [title |-> <<"t">> \o IntToStr(k), img |-> Url(k)]]

Args(kw, date, pages, rows) ==
    [keyword |-> kw, board |-> Board, domain |-> Domain, start_date |-> date,
     pages |-> pages, rows_per_file |-> rows]

\* command lines of whole runs
CommandLines ==
    { Args(<<" ">> \o HomeDecor \o <<" ">>, d, p, r) :
        d \in {Date(2024, 1, 1), BadDate}, p \in {1, 11}, r \in {1, 200} }

-----------------------------------------------------------------------------
(* main, up to the call of get_pinterest_pins *)

Exit(code, why) ==
    /\ pc' = "exit"
    /\ exit_code' = code
    /\ signal' = why

\* start_date is None: "Invalid start date provided", sys.exit(1)
MainInvalidDate ==
    /\ pc = "main"
    /\ validate_date(argv.start_date) = NoneValue
    /\ keyword' = Strip(argv.keyword)
    /\ start_date' = NoneValue
    /\ Exit(1, "InvalidDate")
    /\ UNCHANGED <<argv, num_pages, rows_per_file, site, page, results, response,
                   page_results, fetched, slept, data, files, num_files>>

\* the arguments after validation and clamping
MainValidated ==
    /\ validate_date(argv.start_date) # NoneValue
    /\ keyword' = Strip(argv.keyword)
    /\ start_date' = validate_date(argv.start_date)
    /\ num_pages' = Max(MinPages, Min(argv.pages, MaxPages))
    /\ rows_per_file' = Max(MinRows, Min(argv.rows_per_file, MaxRows))

\* create_output_directory() returns False: sys.exit(1)
MainNoOutputDir ==
    /\ pc = "main"
    /\ MainValidated
    /\ Exit(1, "NoOutputDirectory")
    /\ UNCHANGED <<argv, site, page, results, response, page_results, fetched,
                   slept, data, files, num_files>>

\* the call of get_pinterest_pins: results = [], the loop starts at page 1
MainCollect ==
    /\ pc = "main"
    /\ MainValidated
    /\ pc' = "collect"
    /\ page' = 1
    /\ results' = <<>>
    /\ UNCHANGED <<argv, site, response, page_results, fetched, slept, data,
                   files, num_files, signal, exit_code>>

-----------------------------------------------------------------------------
(* get_pinterest_pins: one action per turn of the page loop *)

\* TargetReached with the comparison off by one: len(results) > target_pins
TargetReachedStrict(n) == n > TargetPins

\* whether the loop breaks before the request, n candidates being collected
TargetReached(n) == n >= TargetPins

\* the loop reaches page with fewer than target_pins collected and requests it
Requests(r) ==
    /\ pc = "collect"
    /\ page <= num_pages
    /\ ~TargetReached(Len(results))
    /\ r \in site
    /\ response' = r
    /\ fetched' = Append(fetched, page)

\* Continue as a break: the failed turn ends the loop
ContinueBreaks ==
    /\ page' = page + 1
    /\ slept' = FALSE
    /\ pc' = "collected"
    /\ UNCHANGED <<results, page_results>>

\* continue: the next turn, without the sleep at the end of the body
Continue ==
    /\ page' = page + 1
    /\ slept' = FALSE
    /\ UNCHANGED <<pc, results, page_results>>

\* requests.get raises a RequestException
FetchNetworkError ==
    /\ \E r \in site : r.kind = "error" /\ Requests(r)
    /\ Continue
    /\ UNCHANGED <<argv, keyword, start_date, num_pages, rows_per_file, site,
                   data, files, num_files, signal, exit_code>>

\* response.status_code != 200
FetchBadStatus ==
    /\ \E r \in site : r.kind = "http" /\ r.status # StatusOK /\ Requests(r)
    /\ Continue
    /\ UNCHANGED <<argv, keyword, start_date, num_pages, rows_per_file, site,
                   data, files, num_files, signal, exit_code>>

\* whether the turn for page p ends in time.sleep(1)
SleepsAfter(p) == p < num_pages

\* status 200: the page is parsed and its pins are made unique.  Without pins
\* ("No pins found on page") the turn continues; with pins the candidates
\* extend results and the turn ends in the delay
FetchPage ==
    /\ \E r \in site :
          /\ r.kind = "http" /\ r.status = StatusOK
          /\ Requests(r)
          /\ LET unique_pins == UniquePins(r.markup)
             IN IF unique_pins = <<>>
                THEN Continue
                ELSE /\ page_results' = Candidates(unique_pins, keyword, Len(results))
                     /\ results' = results \o page_results'
                     /\ slept' = SleepsAfter(page)
                     /\ page' = page + 1
                     /\ UNCHANGED pc
    /\ UNCHANGED <<argv, keyword, start_date, num_pages, rows_per_file, site,
                   data, files, num_files, signal, exit_code>>

\* the loop ends, by the break at its top (len(results) >= target_pins) or
\* because range(1, num_pages + 1) is exhausted: return results
ReturnResults ==
    /\ pc = "collect"
    /\ IF page <= num_pages THEN TargetReached(Len(results)) ELSE TRUE
    /\ pc' = "collected"
    /\ UNCHANGED <<argv, keyword, start_date, num_pages, rows_per_file, site, page,
                   results, response, page_results, fetched, slept, data, files,
                   num_files, signal, exit_code>>

-----------------------------------------------------------------------------
(* main, from the return of get_pinterest_pins on *)

\* the sample data main puts in the place of an empty result
SampleData ==
    [k \in 1..SampleCount |->
        [title |-> keyword \o <<" ", "s", "a", "m", "p", "l", "e", " ", "i", "d", "e", "a", " ">>
                       \o IntToStr(k),
         img |-> <<"h", "t", "t", "p", "s", ":", "/", "/", "v", "i", "a", ".",
                   "p", "l", "a", "c", "e", "h", "o", "l", "d", "e", "r", ".", "c", "o", "m",
                   "/", "3", "0", "0", "x", "3", "0", "0">>]]

\* if not results: results = <sample data>
MainCollected ==
    /\ pc = "collected"
    /\ results' = IF results = <<>> THEN SampleData ELSE results
    /\ pc' = "process"
    /\ UNCHANGED <<argv, keyword, start_date, num_pages, rows_per_file, site, page,
                   response, page_results, fetched, slept, data, files, num_files,
                   signal, exit_code>>

\* data = process_data(results, keyword, board, domain, start_date)
ProcessData ==
    /\ pc = "process"
    /\ \E seed \in 1..NumSeeds :
          data' = process_data(results, keyword, argv.board, argv.domain, start_date, seed)
    /\ pc' = "processed"
    /\ UNCHANGED <<argv, keyword, start_date, num_pages, rows_per_file, site, page,
                   results, response, page_results, fetched, slept, files, num_files,
                   signal, exit_code>>

\* DataCheck without the test: main goes on to save whatever it got
DataCheckSkipped(d) == "none"

\* what main does with the data: the error it exits with, or "none" to go on
DataCheck(d) == IF NoData(d) THEN "NoInputData" ELSE "none"

\* if not data: "No data to process. Exiting.", sys.exit(1); else save
MainChecked ==
    /\ pc = "processed"
    /\ IF DataCheck(data) # "none"
       THEN Exit(1, DataCheck(data))
       ELSE pc' = "save" /\ UNCHANGED <<signal, exit_code>>
    /\ UNCHANGED <<argv, keyword, start_date, num_pages, rows_per_file, site, page,
                   results, response, page_results, fetched, slept, data, files,
                   num_files>>

\* chunk.to_csv(filename) succeeds for the next chunk
SaveChunk ==
    /\ pc = "save"
    /\ Len(files) < Len(Chunks(DataFrame(data), rows_per_file))
    /\ files' = Append(files, [name |-> Filename(keyword, Len(files)),
                               rows |-> Chunks(DataFrame(data), rows_per_file)[Len(files) + 1]])
    /\ UNCHANGED <<pc, argv, keyword, start_date, num_pages, rows_per_file, site, page,
                   results, response, page_results, fetched, slept, data, num_files,
                   signal, exit_code>>

\* FailureCount returning the files written before the failure
FailureCountWritten(written) == written

\* what save_csv_chunks returns from its except clause
FailureCount(written) == 0

\* chunk.to_csv(filename) raises for the next chunk: the except clause returns
SaveChunkFail ==
    /\ pc = "save"
    /\ Len(files) < Len(Chunks(DataFrame(data), rows_per_file))
    /\ num_files' = FailureCount(Len(files))
    /\ pc' = "saved"
    /\ signal' = "ErrorSavingCSV"
    /\ UNCHANGED <<argv, keyword, start_date, num_pages, rows_per_file, site, page,
                   results, response, page_results, fetched, slept, data, files,
                   exit_code>>

\* every chunk is written: return len(chunks)
SaveDone ==
    /\ pc = "save"
    /\ Len(files) = Len(Chunks(DataFrame(data), rows_per_file))
    /\ num_files' = Len(Chunks(DataFrame(data), rows_per_file))
    /\ pc' = "saved"
    /\ UNCHANGED <<argv, keyword, start_date, num_pages, rows_per_file, site, page,
                   results, response, page_results, fetched, slept, data, files,
                   signal, exit_code>>

\* if num_files > 0: success; else "Failed to save CSV files", sys.exit(1)
MainSaved ==
    /\ pc = "saved"
    /\ IF num_files > 0 THEN Exit(0, "none") ELSE Exit(1, "PersistenceFailure")
    /\ UNCHANGED <<argv, keyword, start_date, num_pages, rows_per_file, site, page,
                   results, response, page_results, fetched, slept, data, files,
                   num_files>>

-----------------------------------------------------------------------------
(* Specifications *)

\* what no step has set yet
Unset ==
    /\ response = NoneValue
    /\ page_results = <<>>
    /\ fetched = <<>>
    /\ slept = FALSE
    /\ data = NoneValue
    /\ files = <<>>
    /\ num_files = 0
    /\ signal = "none"
    /\ exit_code = Running

\* a whole run of main()
Init ==
    /\ pc = "main"
    /\ argv \in CommandLines
    /\ keyword = <<>>
    /\ start_date = NoneValue
    /\ num_pages = 0
    /\ rows_per_file = 0
    /\ site = DriverSite
    /\ page = 0
    /\ results = <<>>
    /\ Unset

NextCollect ==
    \/ FetchNetworkError
    \/ FetchBadStatus
    \/ FetchPage
    \/ ReturnResults

NextPipeline ==
    \/ ProcessData
    \/ MainChecked
    \/ SaveChunk
    \/ SaveChunkFail
    \/ SaveDone
    \/ MainSaved

Next ==
    \/ MainInvalidDate
    \/ MainNoOutputDir
    \/ MainCollect
    \/ NextCollect
    \/ MainCollected
    \/ NextPipeline

Spec == Init /\ [][Next]_vars

\* get_pinterest_pins called for one page, over every page the nodes make
InitExtract ==
    /\ pc = "collect"
    /\ argv = Args(HomeDecor, Date(2024, 1, 1), 1, 1)
    /\ keyword \in Keywords
    /\ start_date = Date(2024, 1, 1)
    /\ num_pages = 1
    /\ rows_per_file = MinRows
    /\ site = ExtractSite
    /\ page = 1
    /\ results = <<>>
    /\ Unset

SpecExtract == InitExtract /\ [][NextCollect]_vars

\* process_data called on a candidate list of its own, and what main does
\* with its result; the end-to-end scenario is one of the inputs
InitPipeline ==
    /\ pc = "process"
    /\ keyword \in Keywords
    /\ \/ /\ results \in CandidateLists
          /\ start_date \in StartDates
          /\ rows_per_file \in 1..MaxChunk
       \/ /\ results = ScenarioCandidates
          /\ keyword = HomeDecor
          /\ start_date = Date(2024, 1, 1)
          /\ rows_per_file = 200
    /\ argv = Args(keyword, start_date, 1, rows_per_file)
    /\ num_pages = 0
    /\ site = {}
    /\ page = 0
    /\ Unset

SpecPipeline == InitPipeline /\ [][NextPipeline]_vars

-----------------------------------------------------------------------------
(* Properties of the page loop (Spec) *)

\* a step that requests a page
IsRequest == fetched' # fetched

\* the last request raised a network error or came back with another status
\* than 200
FetchFailed(r) == r.kind = "error" \/ (r.kind = "http" /\ r.status # StatusOK)

\* C3: once the accumulated candidate count is at least the target count, no
\* further page is requested in the run; and while the count is below the
\* target and pages remain within the page limit, the step the loop takes is
\* the request of the next page.
C3_EarlyStop ==
    [][/\ (Len(results) >= TargetPins => ~IsRequest)
       /\ (pc = "collect" /\ Len(results) < TargetPins /\ page <= num_pages
               => fetched' = Append(fetched, page))]_vars

\* C3 witness: the loop has returned on the target with pages left unrequested
C3_Witness ==
    /\ pc = "collected"
    /\ Len(results) >= TargetPins
    /\ page <= num_pages
    /\ Len(fetched) = page - 1
    /\ Len(fetched) >= 2

\* C4: a request that raises a network error or returns a non-success status
\* leaves the accumulator as it was and the loop running on the next page
\* index; from there the next page within the limit is requested; and the
\* return hands back the accumulator, which only pages with pins have
\* extended, each by its own candidates.
C4_FailedPageSkipped ==
    [][/\ (IsRequest /\ FetchFailed(response')
               => results' = results /\ pc' = "collect" /\ page' = page + 1)
       /\ (pc = "collect" /\ response # NoneValue /\ FetchFailed(response)
                /\ page <= num_pages
               => fetched' = Append(fetched, page))
       /\ (IsRequest /\ ~FetchFailed(response')
               => IF UniquePins(response'.markup) = <<>>
                  THEN results' = results
                  ELSE results' = results \o page_results')
       /\ (pc = "collect" /\ pc' = "collected" => results' = results)]_vars

\* C4 witness: a page failed, a later page was requested and gave candidates,
\* and the loop has returned them
C4_Witness ==
    /\ pc = "collected"
    /\ response # NoneValue
    /\ FetchFailed(response)
    /\ results # <<>>
    /\ Len(fetched) = num_pages

\* C9: every request but the first of a run is preceded by the delay, whatever
\* the outcome of the request before it.
C9_DelayBetweenRequests ==
    [][IsRequest /\ fetched # <<>> => slept]_vars

-----------------------------------------------------------------------------
(* Properties of save_csv_chunks and of the end of the run (Spec) *)

\* s is the first Len(s) chunks of the data frame
IsChunkPrefix(s) ==
    /\ Len(s) <= Len(Chunks(DataFrame(data), rows_per_file))
    /\ \A k \in 1..Len(s) :
          /\ s[k].rows = Chunks(DataFrame(data), rows_per_file)[k]
          /\ s[k].name = Filename(keyword, k - 1)

\* C8: when the write of chunk k fails, save_csv_chunks returns 0, the files
\* of the chunks before k stay as written, no later chunk is written, and
\* the run exits with status 1.
C8_WriteFailure ==
    /\ [](pc \in {"save", "saved"} \/ (pc = "exit" /\ signal \in {"none", "PersistenceFailure"})
              => IsChunkPrefix(files))
    /\ [][/\ (pc = "save" /\ pc' = "saved"
                  /\ Len(files) < Len(Chunks(DataFrame(data), rows_per_file))
                  => num_files' = 0 /\ files' = files)
          /\ (pc = "saved" /\ Len(files) < Len(Chunks(DataFrame(data), rows_per_file))
                  => files' = files /\ pc' = "exit" /\ exit_code' = 1
                         /\ signal' = "PersistenceFailure")
          /\ (pc = "exit" => files' = files)]_vars

\* C8 witness: the run has exited on a failed write with files left behind
C8_Witness ==
    /\ pc = "exit"
    /\ signal = "PersistenceFailure"
    /\ exit_code = 1
    /\ Len(files) >= 1
    /\ Len(files) + 1 < Len(Chunks(DataFrame(data), rows_per_file))

-----------------------------------------------------------------------------
(* Properties of the extraction of one page (SpecExtract) *)

\* the last request came back with status 200 and its page was processed
PageExtracted ==
    /\ pc \in {"collect", "collected"}
    /\ response # NoneValue
    /\ response.kind = "http"
    /\ response.status = StatusOK

\* one of the four find_all calls returns the node
Matched(node) ==
    IsImgPin(node) \/ IsPinContainer(node) \/ IsPinDiv(node) \/ IsPinLink(node)

\* the matched elements of the page whose image reference passes the check
ValidPins(markup) ==
    LET all == Descendants(markup)
    IN {all[k] : k \in {j \in 1..Len(all) :
                           Matched(all[j]) /\ ValidImage(RawFields(all[j]).img)}}

\* how many elements of the page have the markup of e
Occurrences(e, markup) ==
    LET all == Descendants(markup)
    IN Cardinality({k \in 1..Len(all) : Serialize(all[k]) = Serialize(e)})

\* how many candidates of the page carry the image reference
CandidatesWithImage(img) ==
    Cardinality({k \in 1..Len(page_results) : page_results[k].img = img})

\* C5 as stated: an identical element with a valid image reference that
\* occurs twice in the page has exactly one candidate, whichever strategies
\* match it and whether or not it lies inside another matched element.
C5_OneCandidatePerRepeatedElement ==
    PageExtracted =>
        \A e \in ValidPins(response.markup) :
            Occurrences(e, response.markup) >= 2
                => CandidatesWithImage(RawFields(e).img) = 1

\* C5 amended: the page has one candidate for each distinct markup among its
\* matched elements with a valid image reference; so the candidates carrying
\* the image of a repeated element are as many as the distinct matched
\* elements that resolve to that image: one when only the element itself
\* does, one more for each matched element around it.
C5_OneCandidatePerDistinctElement ==
    PageExtracted =>
        /\ Len(page_results)
               = Cardinality({Serialize(m) : m \in ValidPins(response.markup)})
        /\ \A e \in ValidPins(response.markup) :
              Occurrences(e, response.markup) >= 2
                  => CandidatesWithImage(RawFields(e).img)
                         = Cardinality({Serialize(m) : m \in
                               {n \in ValidPins(response.markup) :
                                    RawFields(n).img = RawFields(e).img}})

\* C5 witness: a page was processed in which a matched image occurs twice,
\* inside a matched element, and more than one candidate carries its image
C5_Witness ==
    /\ PageExtracted
    /\ \E e \in ValidPins(response.markup) :
          /\ e.name = "img"
          /\ Occurrences(e, response.markup) >= 2
          /\ \E m \in ValidPins(response.markup) :
                \E k \in 1..Len(Descendants(m.kids)) : Descendants(m.kids)[k] = e
          /\ CandidatesWithImage(RawFields(e).img) >= 2

-----------------------------------------------------------------------------
(* Properties of process_data and of what follows it (SpecPipeline) *)

\* the try body raises for the candidate at input position j (0-based)
Skipped(j) == ItemFails(results[j + 1], start_date, j)

\* how many candidates before position j were skipped
SkippedBefore(j) == Cardinality({m \in 0..(j - 1) : Skipped(m)})

\* the input positions of the candidates that are not skipped, in order: the
\* record at position i (0-based) comes from the candidate at NotSkipped[i + 1]
NotSkipped ==
    SelectSeq([k \in 1..Len(results) |-> k - 1], LAMBDA j : ~Skipped(j))

\* how many candidates were skipped before the one behind the record at
\* position i, which NotSkipped has at the same position
SkippedBeforeRecord(kept, i) == kept[i + 1] - i

EndsWith(s, suffix) ==
    /\ Len(s) >= Len(suffix)
    /\ SubSeq(s, Len(s) - Len(suffix) + 1, Len(s)) = suffix

\* process_data has just returned a list
Processed == pc = "processed" /\ data # NoneValue

\* C2 as stated: the record at position i of the returned list is scheduled
\* on the start date plus i days, also after skipped candidates.
C2_DateByPosition ==
    Processed =>
        \A i \in 0..(Len(data.rows) - 1) :
            data.rows[i + 1].scheduled_date = Strftime(AddDays(start_date, i))

\* C2 amended: the record at position i is scheduled on the start date plus
\* i days plus one day for each candidate skipped before it.
C2_DateByPositionAndSkips ==
    Processed =>
        LET kept == NotSkipped
        IN /\ Len(data.rows) = Len(kept)
           /\ \A i \in 0..(Len(data.rows) - 1) :
                 data.rows[i + 1].scheduled_date
                     = Strftime(AddDays(start_date, i + SkippedBeforeRecord(kept, i)))

\* C2 witness: a record was emitted behind a skipped candidate
C2_Witness ==
    /\ Processed
    /\ \E i \in 0..(Len(data.rows) - 1) : SkippedBeforeRecord(NotSkipped, i) > 0

\* C10: the candidates that are not skipped have one record each, in input
\* order; the record of the candidate at input position j is scheduled on the
\* start date plus j days, and its description and its link end in j + 1.
C10_RecordsKeepInputIndex ==
    Processed =>
        /\ Len(data.rows) = Cardinality({j \in 0..(Len(results) - 1) : ~Skipped(j)})
        /\ \A j \in 0..(Len(results) - 1) :
              ~Skipped(j) =>
                  LET r == data.rows[j - SkippedBefore(j) + 1]
                  IN /\ r.scheduled_date = Strftime(AddDays(start_date, j))
                     /\ EndsWith(r.description, <<" ">> \o IntToStr(j + 1))
                     /\ EndsWith(r.domain_link, <<"-">> \o IntToStr(j + 1))
                     /\ r.image_url = results[j + 1].img

\* C10 witness: a candidate between two emitted ones was skipped
C10_Witness ==
    /\ Processed
    /\ Len(results) >= 3
    /\ ~Skipped(0) /\ Skipped(1) /\ ~Skipped(2)
    /\ Len(data.rows) >= 2

\* C7: with no candidates and no sample data in their place, process_data
\* returns None, the run exits with status 1 on "No data to process", and no
\* file is written.
C7_NoInputData ==
    results = <<>> =>
        /\ files = <<>>
        /\ pc \notin {"save", "saved"}
        /\ (pc = "processed" => data = NoneValue)
        /\ (pc = "exit" => signal = "NoInputData" /\ exit_code = 1)

\* C7 witness: the run has exited on an empty candidate list
C7_Witness == pc = "exit" /\ results = <<>> /\ exit_code = 1

RECURSIVE ConcatRows(_)
ConcatRows(fs) == IF fs = <<>> THEN <<>> ELSE Head(fs).rows \o ConcatRows(Tail(fs))

\* save_csv_chunks has returned the number of chunks
Saved == pc \in {"saved", "exit"} /\ num_files > 0

\* C1: the files save_csv_chunks has written hold, in order, exactly the
\* records of the data frame; none holds more than rows_per_file records and
\* all but the last hold exactly rows_per_file.
C1_ChunksPartition ==
    Saved =>
        /\ num_files = Len(files)
        /\ ConcatRows(files) = DataFrame(data)
        /\ \A k \in 1..Len(files) :
              /\ Len(files[k].rows) <= rows_per_file
              /\ Len(files[k].rows) >= 1
              /\ (k < Len(files) => Len(files[k].rows) = rows_per_file)

\* C1 witness: several chunks were written, the last one shorter
C1_Witness ==
    /\ pc = "saved"
    /\ num_files >= 2
    /\ Len(files) = num_files
    /\ Len(files[num_files].rows) < rows_per_file

\* the end-to-end scenario: 450 valid candidates, "home decor", 2024-01-01,
\* chunks of 200
IsScenario ==
    /\ Len(results) = 450
    /\ results = ScenarioCandidates
    /\ keyword = HomeDecor
    /\ start_date = Date(2024, 1, 1)
    /\ rows_per_file = 200

\* the scenario has run to a successful exit with files of 200, 200 and 50
\* records, the first record scheduled on 2024-01-01
ScenarioFiles ==
    /\ Len(files) = 3
    /\ Len(files[1].rows) = 200
    /\ Len(files[2].rows) = 200
    /\ Len(files[3].rows) = 50
    /\ files[1].rows[1].scheduled_date = <<"2", "0", "2", "4", "-", "0", "1", "-", "0", "1">>

\* C6 as stated: in the scenario, three files of 200, 200 and 50 records,
\* record 0 scheduled on 2024-01-01 and record 449 on 2024-12-15.
C6_ScenarioAsStated ==
    IsScenario /\ pc = "exit" /\ exit_code = 0 =>
        /\ ScenarioFiles
        /\ files[3].rows[50].scheduled_date
               = <<"2", "0", "2", "4", "-", "1", "2", "-", "1", "5">>

\* C6 amended: in the scenario, three files of 200, 200 and 50 records,
\* record 0 scheduled on 2024-01-01 and record 449 on 2025-03-25.
C6_ScenarioDates ==
    IsScenario /\ pc = "exit" /\ exit_code = 0 =>
        /\ ScenarioFiles
        /\ files[3].rows[50].scheduled_date
               = <<"2", "0", "2", "5", "-", "0", "3", "-", "2", "5">>

\* C6 witness: the scenario has run to its successful exit
C6_Witness ==
    /\ IsScenario
    /\ pc = "exit"
    /\ exit_code = 0
    /\ Len(files) = 3
    /\ files[3].name = <<"o", "u", "t", "p", "u", "t", "/", "h", "o", "m", "e", "_",
                         "d", "e", "c", "o", "r", "_", "p", "a", "r", "t", "3",
                         ".", "c", "s", "v">>

====
